---- MODULE Spec2Model ----
(***************************************************************************)
(* WaveViz: create_audio_visualization (src/waveviz.py) as a state machine. *)
(*                                                                         *)
(* One run of the pipeline: frame segmentation, the multiprocessing pool   *)
(* computing one RMS per frame, normalization, figure set-up, the          *)
(* animation callback update(frame) driven by FuncAnimation/ani.save, and  *)
(* the final mux.                                                          *)
(*                                                                         *)
(* Numbers.  Samples are small integers (fixed-point units).  speed is a   *)
(* rational <<p, q>> with q > 0.  An amplitude a >= 0 is carried as the     *)
(* exact reduced rational <<n, d>> of its SQUARE (a = sqrt(n/d)); the root  *)
(* is monotone and injective on non-negatives, so order, equality, 0 and 1 *)
(* are preserved, and a quotient a/b is carried as the quotient of the     *)
(* squares.                                                                *)
(***************************************************************************)
EXTENDS Integers, Sequences, FiniteSets, TLC

\* ---------------------------------------------------------------- bounds
MaxLen == 3          \* longest signal enumerated (samples)
MaxBars == 2         \* largest num_bars enumerated
MaxWorkers == 2      \* largest cpu_count() enumerated

\* ------------------------------------------------------ program constants
sr_target == 22050           \* line 23
base_frame_duration_den == 20 \* line 27: 0.05 s = 1/20 s

\* ----------------------------------------------------------- input sets
SampleValues == {-1, 0, 2}

RECURSIVE SeqsUpTo(_, _)
SeqsUpTo(S, n) ==
    IF n = 0 THEN {<<>>}
    ELSE LET shorter == SeqsUpTo(S, n - 1)
         IN  shorter \cup {Append(s, x) : s \in {r \in shorter : Len(r) = n - 1}, x \in S}

Signals == SeqsUpTo(SampleValues, MaxLen)

\* speed = p/q.  With sr = 22050 and base 0.05 s, frame_duration * sr is
\*   4 -> 275.625   1 -> 1102.5   2205/2 -> 1   2205/4 -> 2   400 -> 2.75625
\*   1000/3 -> 3.3075   33/100 -> 3340.909...   2205 -> 0.5   0 -> (division by
\*   zero)   -1 -> -1102.5
Speeds == { <<4, 1>>, <<1, 1>>, <<2205, 2>>, <<2205, 4>>, <<400, 1>>,
            <<1000, 3>>, <<33, 100>>, <<2205, 1>>, <<0, 1>>, <<-1, 1>> }

WaveformTypes == {"bars", "line", "circle", "spiral"}
Supported == {"bars", "line", "circle"}

NumBarsValues == (-1) .. MaxBars

\* ------------------------------------------------------------ arithmetic
Abs(x) == IF x < 0 THEN -x ELSE x

RECURSIVE GCD(_, _)
GCD(a, b) == IF b = 0 THEN a ELSE GCD(b, a % b)

\* the reduced fraction n/d, d > 0
Frac(n, d) ==
    LET s == IF d < 0 THEN -1 ELSE 1
        g == GCD(Abs(n), Abs(d))
    IN  <<(s * n) \div g, (s * d) \div g>>

Zero == <<0, 1>>
One == <<1, 1>>
\* a slot of the pool's result list not yet filled (no amplitude is negative)
None == <<-1, 1>>

Less(a, b) == a[1] * b[2] < b[1] * a[2]
Leq(a, b) == a[1] * b[2] <= b[1] * a[2]

\* Python's a // b (floor division), b # 0
FloorDiv(a, b) == IF b > 0 THEN a \div b ELSE (-a) \div (-b)

\* (variant: rounding to nearest, half up, instead of truncating)
IntRound(r) == (2 * r[1] + r[2]) \div (2 * r[2])
\* Python's int(x) on a float x = r[1]/r[2]: truncation toward zero
IntTrunc(r) == IF r[1] >= 0 THEN r[1] \div r[2] ELSE -((-r[1]) \div r[2])

\* Python's s[lo:hi] for 0 <= lo, on a 1-based TLA+ sequence
Slice(s, lo, hi) ==
    LET h == IF hi < 0 THEN 0 ELSE IF hi > Len(s) THEN Len(s) ELSE hi
        l == IF lo > Len(s) THEN Len(s) ELSE lo
    IN  IF h <= l THEN <<>> ELSE [k \in 1 .. (h - l) |-> s[l + k]]

\* [0] * n (the empty list when n <= 0)
Zeros(n) == IF n <= 0 THEN <<>> ELSE [k \in 1 .. n |-> Zero]

RECURSIVE SumSq(_)
SumSq(s) == IF s = <<>> THEN 0 ELSE s[1] * s[1] + SumSq(Tail(s))

\* ------------------------------------------------------------ compute_rms
\* np.sqrt(np.mean(frame_data ** 2)), carried as the square (see above)
compute_rms(task, y) ==
    LET frame_data == Slice(y, task[1], task[2])
    IN  IF Len(frame_data) > 0
        THEN Frac(SumSq(frame_data), Len(frame_data))
        ELSE Zero

\* ------------------------------------------------------------ segmentation
\* frame_duration = base_frame_duration / speed  (speed # 0)
FrameDuration(sp) == Frac(sp[2], base_frame_duration_den * sp[1])

\* samples_per_frame = int(frame_duration * sr)
SamplesPerFrame(sp, sr) ==
    LET fd == FrameDuration(sp)
    IN  IntTrunc(Frac(fd[1] * sr, fd[2]))

\* num_frames = len(y) // samples_per_frame  (samples_per_frame # 0)
NumFrames(y, spf) == FloorDiv(Len(y), spf)

\* tasks = [(i*spf, (i+1)*spf, y) for i in range(num_frames)]
Tasks(nf, spf) ==
    IF nf <= 0 THEN <<>> ELSE [k \in 1 .. nf |-> <<(k - 1) * spf, k * spf>>]

\* fps = int(1 / frame_duration)
SaveFps(sp) ==
    LET fd == FrameDuration(sp)
    IN  IntTrunc(Frac(fd[2], fd[1]))

\* ------------------------------------------------------------------- pool
\* (variant: results appended in the order the tasks finish)
CollectInCompletionOrder(res, i, r) ==
    LET free == {k \in DOMAIN res : res[k] = None}
        first == CHOOSE k \in free : \A j \in free : k <= j
    IN  [res EXCEPT ![first] = r]
\* Pool.map stores the result of task i at position i of the result list
Collect(res, i, r) == [res EXCEPT ![i] = r]

\* (variant: returning as soon as the task queue is drained)
MapReadyOnFirstResult(res, q, run) == q = {}
\* Pool.map returns once every task's result has been collected
MapReady(res, q, run) ==
    q = {} /\ run = {} /\ \A k \in DOMAIN res : res[k] # None

\* ------------------------------------------------------------ normalizer
RECURSIVE MaxOf(_)
MaxOf(s) ==
    IF Len(s) = 1 THEN s[1]
    ELSE LET m == MaxOf(Tail(s)) IN IF Less(s[1], m) THEN m ELSE s[1]

\* bar_heights /= bar_heights.max()   (peak > 0)
Divide(s, peak) ==
    [k \in DOMAIN s |-> Frac(s[k][1] * peak[2], s[k][2] * peak[1])]

\* ------------------------------------------------------- geometry mapper
\* (variant: the window is not padded)
PadNothing(v, n) == v
\* np.pad(v, (0, n), mode='constant')
Pad(v, n) == v \o Zeros(n)

\* the body of update(frame), lines 102-107 (num_bars # 0)
BarValues(bh, frame, nb) ==
    LET segment_size == FloorDiv(Len(bh), nb)
    IN  IF segment_size > 0
        THEN LET w == Slice(bh, frame, frame + nb)
             IN  Pad(w, nb - Len(w))
        ELSE Zeros(nb)

\* ------------------------------------------------------------------ state
VARIABLES
    y,                  \* the loaded signal (line 24)
    speed,              \* --speed, <<p, q>>
    waveform_type,      \* --waveform_type
    num_bars,           \* --num_bars
    cpu_count,          \* processes of Pool()
    pc,                 \* position of the run
    error,              \* "none" or where:what of the exception that ended the run
    samples_per_frame,  \* line 29
    num_frames,         \* line 30
    tasks,              \* line 33
    queued,             \* tasks submitted to the pool, not yet picked up
    running,            \* tasks a worker is computing
    results,            \* the pool's result list, None where not yet collected
    executed,           \* number of compute_rms calls completed
    out_of_order,       \* some task completed before a lower-indexed one
    bar_heights,        \* lines 46, 52-54
    pbar,               \* tqdm counter (line 99)
    calls,              \* the frame arguments update has been called with
    bar_values,         \* the display vector of the last update call
    save_fps,           \* fps passed to ani.save (line 126)
    silent_file,        \* silent_audio_visualization.mp4 written
    final_file          \* <output>.mp4 written

vars == <<y, speed, waveform_type, num_bars, cpu_count, pc, error,
          samples_per_frame, num_frames, tasks, queued, running, results,
          executed, out_of_order, bar_heights, pbar, calls, bar_values,
          save_fps, silent_file, final_file>>

inputs == <<y, speed, waveform_type, num_bars, cpu_count>>
framing == <<samples_per_frame, num_frames, tasks>>
pool == <<queued, running, results, executed, out_of_order>>
anim == <<pbar, calls, bar_values>>
files == <<save_fps, silent_file, final_file>>

Init ==
    /\ y \in Signals
    /\ speed \in Speeds
    /\ waveform_type \in WaveformTypes
    /\ num_bars \in NumBarsValues
    /\ cpu_count \in 1 .. MaxWorkers
    /\ pc = "start"
    /\ error = "none"
    /\ samples_per_frame = 0
    /\ num_frames = 0
    /\ tasks = <<>>
    /\ queued = {}
    /\ running = {}
    /\ results = <<>>
    /\ executed = 0
    /\ out_of_order = FALSE
    /\ bar_heights = <<>>
    /\ pbar = 0
    /\ calls = <<>>
    /\ bar_values = <<>>
    /\ save_fps = 0
    /\ silent_file = FALSE
    /\ final_file = FALSE

Fail(what) ==
    /\ pc' = "failed"
    /\ error' = what

\* lines 23-42: frame_duration, samples_per_frame, num_frames, tasks
Segment ==
    /\ pc = "start"
    /\ IF speed[1] = 0
       THEN /\ Fail("segment:ZeroDivisionError")         \* line 28
            /\ UNCHANGED framing
       ELSE LET spf == SamplesPerFrame(speed, sr_target)
            IN  IF spf = 0
                THEN /\ Fail("segment:ZeroDivisionError")  \* line 30
                     /\ samples_per_frame' = spf
                     /\ UNCHANGED <<num_frames, tasks>>
                ELSE /\ samples_per_frame' = spf
                     /\ num_frames' = NumFrames(y, spf)
                     /\ tasks' = Tasks(NumFrames(y, spf), spf)
                     /\ pc' = "pool"
                     /\ UNCHANGED error
    /\ UNCHANGED <<inputs, pool, bar_heights, anim, files>>

\* lines 45-46: Pool() is created and pool.map submits every task
MapSubmit ==
    /\ pc = "pool"
    /\ pc' = "mapping"
    /\ queued' = 1 .. Len(tasks)
    /\ results' = [k \in 1 .. Len(tasks) |-> None]
    /\ UNCHANGED <<inputs, error, framing, running, executed, out_of_order,
                   bar_heights, anim, files>>

\* an idle worker takes a task
PickUp(i) ==
    /\ pc = "mapping"
    /\ i \in queued
    /\ Cardinality(running) < cpu_count
    /\ queued' = queued \ {i}
    /\ running' = running \cup {i}
    /\ UNCHANGED <<inputs, pc, error, framing, results, executed, out_of_order,
                   bar_heights, anim, files>>

\* a worker finishes compute_rms(tasks[i]); the pool collects the result
Complete(i) ==
    /\ pc = "mapping"
    /\ i \in running
    /\ running' = running \ {i}
    /\ results' = Collect(results, i, compute_rms(tasks[i], y))
    /\ executed' = executed + 1
    /\ out_of_order' = (out_of_order \/ \E k \in 1 .. (i - 1) : k \in queued \cup running)
    /\ UNCHANGED <<inputs, pc, error, framing, queued, bar_heights, anim, files>>

\* line 46: pool.map returns the result list
MapReturn ==
    /\ pc = "mapping"
    /\ MapReady(results, queued, running)
    /\ bar_heights' = results
    /\ pc' = "normalize"
    /\ UNCHANGED <<inputs, error, framing, pool, anim, files>>

\* lines 52-54
Normalize ==
    /\ pc = "normalize"
    /\ IF Len(bar_heights) = 0
       THEN /\ Fail("normalize:ValueError")   \* max() of a zero-size array
            /\ UNCHANGED bar_heights
       ELSE LET peak == MaxOf(bar_heights)
            IN  /\ bar_heights' = IF Less(Zero, peak)
                                  THEN Divide(bar_heights, peak)
                                  ELSE bar_heights
                /\ pc' = "figure"
                /\ UNCHANGED error
    /\ UNCHANGED <<inputs, framing, pool, anim, files>>

\* lines 57-95: figure, artists, progress bar
SetupFigure ==
    /\ pc = "figure"
    /\ IF waveform_type \notin Supported
       THEN /\ pc' = "returned"               \* lines 90-92
            /\ error' = "figure:unsupported waveform type"
       ELSE IF waveform_type \in {"bars", "circle"} /\ num_bars < 0
            THEN Fail("figure:ValueError")    \* np.zeros(num_bars)
            ELSE /\ pc' = "animate"
                 /\ UNCHANGED error
    /\ UNCHANGED <<inputs, framing, pool, bar_heights, anim, files>>

\* update(frame), lines 97-120
Update(frame) ==
    /\ pbar' = pbar + 1
    /\ calls' = Append(calls, frame)
    /\ IF num_bars = 0
       THEN /\ Fail("update:ZeroDivisionError")   \* line 102
            /\ UNCHANGED bar_values
       ELSE /\ bar_values' = BarValues(bar_heights, frame, num_bars)
            /\ UNCHANGED <<pc, error>>

\* lines 122, 126: FuncAnimation has no init_func, so ani.save first draws
\* the first item of the frame sequence as the initial frame
InitDraw ==
    /\ pc = "animate"
    /\ calls = <<>>
    /\ num_frames > 0
    /\ Update(0)
    /\ UNCHANGED <<inputs, framing, pool, bar_heights, files>>

\* line 126: ani.save draws and grabs frames 0 .. num_frames - 1 in order
SaveFrame ==
    /\ pc = "animate"
    /\ Len(calls) >= 1
    /\ Len(calls) <= num_frames
    /\ Update(Len(calls) - 1)
    /\ UNCHANGED <<inputs, framing, pool, bar_heights, files>>

\* lines 126-129: the writer finishes the silent file; pbar.close()
SaveDone ==
    /\ pc = "animate"
    /\ Len(calls) = num_frames + 1
    /\ save_fps' = SaveFps(speed)
    /\ silent_file' = TRUE
    /\ pc' = "mux"
    /\ UNCHANGED <<inputs, error, framing, pool, bar_heights, anim, final_file>>

\* lines 131-140
Mux ==
    /\ pc = "mux"
    /\ final_file' = TRUE
    /\ pc' = "done"
    /\ UNCHANGED <<inputs, error, framing, pool, bar_heights, anim, save_fps,
                   silent_file>>

Next ==
    \/ Segment
    \/ MapSubmit
    \/ \E i \in queued : PickUp(i)
    \/ \E i \in running : Complete(i)
    \/ MapReturn
    \/ Normalize
    \/ SetupFigure
    \/ InitDraw
    \/ SaveFrame
    \/ SaveDone
    \/ Mux

Spec == Init /\ [][Next]_vars

\* ------------------------------------------------------------ properties
\* the last frame argument update was called with
LastFrame == calls[Len(calls)]

AfterMap == {"normalize", "figure", "animate", "mux", "done", "returned"}
AfterNormalize == {"figure", "animate", "mux", "done", "returned"}

\* the RMS of frame i's slice [(i-1)*spf, i*spf) of y, written from the
\* definition (sum of squares over the slice, divided by its length)
RECURSIVE SquaresFrom(_, _, _)
SquaresFrom(s, lo, hi) ==
    IF lo > hi THEN 0 ELSE s[lo] * s[lo] + SquaresFrom(s, lo + 1, hi)

FrameRms(i) ==
    Frac(SquaresFrom(y, (i - 1) * samples_per_frame + 1, i * samples_per_frame),
         samples_per_frame)

\* the zero-padded sliding window of the table at tick t
SlidingWindow(t) ==
    [k \in 1 .. num_bars |->
        IF t + k <= Len(bar_heights) THEN bar_heights[t + k] ELSE Zero]

\* C1: for every table, every num_bars >= 1 and every tick t, the display
\* vector computed by update is the zero-padded sliding window
\* v[k] = table[t+k] if t+k < frame_count else 0, also when the table is
\* shorter than num_bars.
C1_ZeroPaddedWindow ==
    (calls # <<>> /\ num_bars >= 1) => bar_values = SlidingWindow(LastFrame)

\* C2: for every tick, every num_bars >= 1 and every geometry, the display
\* vector produced by update has length exactly num_bars, in the windowed
\* branch and in the all-zero branch.
C2_DisplayLength ==
    (calls # <<>> /\ num_bars >= 1 /\ waveform_type \in Supported)
        => Len(bar_values) = num_bars

\* a padded window: the windowed branch ran at a tick whose window runs past
\* the end of the table
C2_Witness ==
    /\ calls # <<>>
    /\ num_bars = 2
    /\ Len(bar_heights) >= num_bars
    /\ LastFrame + num_bars > Len(bar_heights)
    /\ bar_heights[Len(bar_heights)] # Zero
    /\ bar_values = <<bar_heights[Len(bar_heights)], Zero>>

\* what normalization leaves behind for the raw table the pool returned
NormalizedFrom(raw, bh) ==
    /\ Len(bh) = Len(raw)
    /\ IF \E k \in DOMAIN raw : Less(Zero, raw[k])
       THEN /\ \A k \in DOMAIN bh : Leq(Zero, bh[k]) /\ Leq(bh[k], One)
            /\ \E k \in DOMAIN bh : bh[k] = One
            /\ \A k \in DOMAIN bh : bh[k] = Frac(raw[k][1] * MaxOf(raw)[2],
                                                 raw[k][2] * MaxOf(raw)[1])
       ELSE \A k \in DOMAIN bh : bh[k] = Zero

\* C3: normalization of any raw table, the all-zero and the empty table
\* included, never fails: with a peak > 0 every entry becomes entry/peak, all
\* entries lie in [0, 1] and the maximum is 1; with a peak of 0 or an empty
\* table all entries stay 0 and the length is unchanged.
C3_NormalizationNeverFails ==
    /\ error # "normalize:ValueError"
    /\ pc \in AfterNormalize => NormalizedFrom(results, bar_heights)

\* C4: a signal shorter than samples_per_frame (the empty signal included)
\* does not fail the run: frame_count is 0, the table is empty, the pipeline
\* proceeds past normalization and the driver performs zero ticks.
C4_ShortSignalRuns ==
    (pc # "start" /\ samples_per_frame >= 1 /\ Len(y) < samples_per_frame)
        => /\ num_frames = 0
           /\ tasks = <<>>
           /\ calls = <<>>
           /\ pc # "failed"

\* C5: whatever the number of workers and the order in which the frame tasks
\* are picked up and completed, the collected table has length frame_count
\* and entry i is the RMS of frame i's slice.
C5_TableIndexedByFrame ==
    /\ pc = "mapping" =>
          \A i \in DOMAIN results : results[i] # None => results[i] = FrameRms(i)
    /\ (pc = "normalize" /\ samples_per_frame >= 1) =>
          /\ Len(bar_heights) = num_frames
          /\ \A i \in 1 .. num_frames : bar_heights[i] = FrameRms(i)

\* two workers, a later frame completed before an earlier one, and the two
\* frames differ
C5_Witness ==
    /\ pc = "normalize"
    /\ cpu_count = 2
    /\ out_of_order
    /\ Len(bar_heights) >= 2
    /\ bar_heights[1] # bar_heights[2]

\* frame_duration * sample_rate as an exact fraction n/d, for speed > 0
ProductNum == sr_target * speed[2]
ProductDen == base_frame_duration_den * speed[1]

\* C6 as stated: samples_per_frame is the integer nearest to
\* (base_duration / speed) * sample_rate, and frame_count is
\* floor(sample_count / samples_per_frame).
C6_Rounded ==
    (pc # "start" /\ speed[1] > 0) =>
        2 * Abs(samples_per_frame * ProductDen - ProductNum) <= ProductDen

\* C6 amended: samples_per_frame is frame_duration * sample_rate truncated
\* to an integer, and, when it is at least 1, frame_count is
\* floor(sample_count / samples_per_frame).
C6_Truncated ==
    (pc # "start" /\ speed[1] > 0) =>
        /\ samples_per_frame * ProductDen <= ProductNum
        /\ ProductNum < (samples_per_frame + 1) * ProductDen
        /\ samples_per_frame >= 1 =>
              /\ num_frames * samples_per_frame <= Len(y)
              /\ Len(y) < (num_frames + 1) * samples_per_frame

\* speed 400: frame_duration * sample_rate = 2.75625, fractional part > 1/2
C6_Witness ==
    /\ speed = <<400, 1>>
    /\ samples_per_frame = 2
    /\ Len(y) = 3
    /\ num_frames = 1
    /\ pc = "pool"

ConfigurationError ==
    \/ speed[1] <= 0
    \/ SamplesPerFrame(speed, sr_target) < 1
    \/ waveform_type \notin Supported
    \/ num_bars <= 0

\* C7: every configuration error fails the run before any pool task is
\* submitted or executed, and no silent or final video is produced.
C7_ConfigErrorsFailFirst ==
    ConfigurationError =>
        /\ queued = {} /\ running = {} /\ executed = 0
        /\ ~silent_file /\ ~final_file

\* C8: the frame rate the artifact is saved at equals
\* 1 / frame_duration = speed / base_duration exactly.
C8_ExactFrameRate ==
    silent_file => save_fps * speed[2] = base_frame_duration_den * speed[1]

\* C9: update is invoked for t = 0, 1, ..., frame_count-1 in strictly
\* increasing order, each tick once, the progress counter advancing by one
\* per tick and equal to frame_count when the run ends.
C9_EachTickOnce ==
    /\ \A k \in DOMAIN calls : calls[k] = k - 1
    /\ pbar = Len(calls)
    /\ pc \in {"mux", "done"} => pbar = num_frames

Normalized(bh) ==
    \/ \A k \in DOMAIN bh : bh[k] = Zero
    \/ /\ \E k \in DOMAIN bh : bh[k] = One
       /\ \A k \in DOMAIN bh : Leq(Zero, bh[k]) /\ Leq(bh[k], One)

PhasesOrdered ==
    /\ pc \in AfterMap =>
          /\ queued = {} /\ running = {}
          /\ executed = Len(tasks)
          /\ \A k \in DOMAIN results : results[k] # None
    /\ (calls # <<>> \/ silent_file \/ final_file) =>
          /\ pc \notin {"start", "pool", "mapping", "normalize"}
          /\ Normalized(bar_heights)

TableFrozen ==
    (pc \in AfterNormalize \/ calls' # calls) => bar_heights' = bar_heights

\* C10: the phases never overlap: normalization starts only after every RMS
\* task has completed and been collected, no tick or rendering step runs
\* before normalization has finished, and no tick modifies the table.
C10_PhasesNeverOverlap == [](PhasesOrdered) /\ [][TableFrozen]_vars

\* a finished run of several frames whose table normalization rescaled
C10_Witness ==
    /\ pc = "done"
    /\ num_frames >= 2
    /\ out_of_order
    /\ bar_heights # results

====
